---- MODULE Spec2Model ----
(***************************************************************************)
(* A model of bmaptools/BmapHelpers.py: the block-size probe, the mount    *)
(* point walk, the file-system type detection through 'df -T', the ZFS     *)
(* parameter check and the compatibility verdict built from them.          *)
(*                                                                         *)
(* Text is a sequence of one-character strings, so that readline(), int(), *)
(* splitlines(), split() and lower() are computed the way Python computes  *)
(* them.  A path is the sequence of its components below the root: <<>> is *)
(* "/", <<"a", "b">> is "/a/b".                                            *)
(*                                                                         *)
(* The module keeps no state between calls.  The one variable, call, holds *)
(* the call in progress or the last call made: its function, the inputs    *)
(* and the environment it ran in, and what it returned or raised.          *)
(***************************************************************************)
EXTENDS Integers, Sequences, FiniteSets

VARIABLES call

vars == <<call>>

(***************************************************************************)
(* Bounds of the model.                                                    *)
(***************************************************************************)
MaxLen == 3
MaxFields == 3
MaxBsize == 3
MaxPathLen == 3
MaxIters == 8

(***************************************************************************)
(* Generic helpers.                                                        *)
(***************************************************************************)
SeqsUpTo(S, n) == UNION {[1..k -> S] : k \in 0..n}

IsPrefix(p, q) == Len(p) <= Len(q) /\ SubSeq(q, 1, Len(p)) = p

Whitespace == {" ", "\n"}

Digits == {"0", "1"}

DigitVal(c) == IF c = "1" THEN 1 ELSE 0

(***************************************************************************)
(* str.strip(): leading and trailing whitespace removed, as int() does     *)
(* before it parses.                                                       *)
(***************************************************************************)
RECURSIVE LStrip(_)
LStrip(s) ==
    IF s # <<>> /\ Head(s) \in Whitespace THEN LStrip(Tail(s)) ELSE s

RECURSIVE RStrip(_)
RStrip(s) ==
    IF s # <<>> /\ s[Len(s)] \in Whitespace
    THEN RStrip(SubSeq(s, 1, Len(s) - 1))
    ELSE s

Strip(s) == RStrip(LStrip(s))

RECURSIVE DecimalValue(_)
DecimalValue(ds) ==
    IF ds = <<>> THEN 0
    ELSE 10 * DecimalValue(SubSeq(ds, 1, Len(ds) - 1)) + DigitVal(ds[Len(ds)])

(***************************************************************************)
(* int(text): surrounding whitespace is dropped, one optional sign, then   *)
(* at least one digit and nothing else; anything else is a ValueError.     *)
(* py3 tells the interpreter: Python 3 wants the digits right after the    *)
(* sign, Python 2 skips whitespace between the sign and the digits, so     *)
(* that int("- 1") is -1 there.                                            *)
(***************************************************************************)
ParseInt(text, py3) ==
    LET s == Strip(text)
        signed == s # <<>> /\ Head(s) \in {"-", "+"}
        rest == IF signed THEN Tail(s) ELSE s
        body == IF signed /\ ~py3 THEN LStrip(rest) ELSE rest
        ok == body # <<>> /\ \A i \in 1..Len(body) : body[i] \in Digits
        mag == IF ok THEN DecimalValue(body) ELSE 0
    IN  [ok |-> ok,
         val |-> IF signed /\ Head(s) = "-" THEN 0 - mag ELSE mag]

(***************************************************************************)
(* f.readline(): the text up to and including the first newline, or all of *)
(* it when there is none.                                                  *)
(***************************************************************************)
RECURSIVE ReadLine(_)
ReadLine(s) ==
    IF s = <<>> THEN <<>>
    ELSE IF Head(s) = "\n" THEN <<"\n">>
    ELSE <<Head(s)>> \o ReadLine(Tail(s))

(***************************************************************************)
(* The ZFS parameter path.  kind is what the host has at that path:        *)
(*   "absent"  nothing there;                                              *)
(*   "dir"     something that is not a regular file (os.path.isfile is     *)
(*             false, although the path exists);                           *)
(*   "noperm"  a regular file that open() refuses with an IOError;         *)
(*   "file"    a regular, readable file holding content.                   *)
(***************************************************************************)
ParamChars == {"0", "1", "-", " ", "\n", "x"}

ParamContents == SeqsUpTo(ParamChars, MaxLen)

ParamStates ==
    {[kind |-> k, content |-> <<>>] : k \in {"absent", "dir", "noperm"}}
        \cup {[kind |-> "file", content |-> c] : c \in ParamContents}

IsFile(param) == param.kind \in {"noperm", "file"}

Returned(v, opened) ==
    [kind |-> "return", val |-> v, exc |-> "", msg |-> "", opened |-> opened]

Raised(e, m, opened) ==
    [kind |-> "raise", val |-> FALSE, exc |-> e, msg |-> m, opened |-> opened]

(* A variant that compares the line read with the text "1" instead of      *)
(* parsing it.                                                             *)
is_zfs_compatible_strcmp(param, py3) ==
    IF IsFile(param)
    THEN IF param.kind = "noperm"
         THEN Raised("Error", "cannot open zfs param path", TRUE)
         ELSE Returned(ReadLine(param.content) = <<"1">>, TRUE)
    ELSE Returned(FALSE, FALSE)

(* A variant that tests os.path.exists instead of os.path.isfile: what is  *)
(* there but is no regular file is opened, and open() fails.               *)
is_zfs_compatible_exists(param, py3) ==
    IF param.kind # "absent"
    THEN IF param.kind \in {"noperm", "dir"}
         THEN Raised("Error", "cannot open zfs param path", TRUE)
         ELSE LET n == ParseInt(ReadLine(param.content), py3)
              IN  IF n.ok
                  THEN Returned(1 = n.val, TRUE)
                  ELSE Raised("Error", "invalid value read from param path", TRUE)
    ELSE Returned(FALSE, FALSE)

is_zfs_compatible(param, py3) ==
    IF IsFile(param)
    THEN IF param.kind = "noperm"
         THEN Raised("Error", "cannot open zfs param path", TRUE)
         ELSE LET n == ParseInt(ReadLine(param.content), py3)
              IN  IF n.ok
                  THEN Returned(1 = n.val, TRUE)
                  ELSE Raised("Error", "invalid value read from param path", TRUE)
    ELSE Returned(FALSE, FALSE)

ZfsCalls ==
    {[fn |-> "is_zfs_compatible", pc |-> "start", param |-> param, py3 |-> v] :
        param \in ParamStates, v \in BOOLEAN}

IsZfsCompatible ==
    /\ call.fn = "is_zfs_compatible"
    /\ call.pc = "start"
    /\ call' = [fn |-> call.fn, pc |-> "done", param |-> call.param,
                py3 |-> call.py3,
                out |-> is_zfs_compatible(call.param, call.py3)]

(***************************************************************************)
(* get_block_size.  ioctl is what the FIGETBSZ request does on the file:   *)
(* it raises an IOError or reports a 32-bit unsigned number.  fstat is     *)
(* what os.fstat() gives: it raises, or it is a status with or without the *)
(* st_blksize field.                                                       *)
(***************************************************************************)
IoctlOutcomes ==
    {[raises |-> TRUE, bsize |-> 0]}
        \cup {[raises |-> FALSE, bsize |-> n] : n \in 0..MaxBsize}

FstatOutcomes ==
    {[raises |-> TRUE, has_blksize |-> FALSE, st_blksize |-> 0],
     [raises |-> FALSE, has_blksize |-> FALSE, st_blksize |-> 0]}
        \cup {[raises |-> FALSE, has_blksize |-> TRUE, st_blksize |-> n] :
                 n \in 0..MaxBsize}

BsReturned(n, statted) ==
    [kind |-> "return", bsize |-> n, exc |-> "", msg |-> "", fstat_called |-> statted]

BsRaised(e, m, statted) ==
    [kind |-> "raise", bsize |-> 0, exc |-> e, msg |-> m, fstat_called |-> statted]

(* A variant without the test for a zero block size.                      *)
get_block_size_nozero(ioctl, fstat) ==
    IF ~ioctl.raises
    THEN BsReturned(ioctl.bsize, FALSE)
    ELSE IF fstat.raises
         THEN BsRaised("OSError", "fstat", TRUE)
         ELSE IF fstat.has_blksize
              THEN BsReturned(fstat.st_blksize, TRUE)
              ELSE BsRaised("IOError", "Unable to determine block size", TRUE)

get_block_size(ioctl, fstat) ==
    IF ~ioctl.raises /\ ioctl.bsize # 0
    THEN BsReturned(ioctl.bsize, FALSE)
    ELSE IF fstat.raises
         THEN BsRaised("OSError", "fstat", TRUE)
         ELSE IF fstat.has_blksize
              THEN BsReturned(fstat.st_blksize, TRUE)
              ELSE BsRaised("IOError", "Unable to determine block size", TRUE)

BsCalls ==
    {[fn |-> "get_block_size", pc |-> "start", ioctl |-> ioctl, fstat |-> fstat] :
        ioctl \in IoctlOutcomes, fstat \in FstatOutcomes}

GetBlockSize ==
    /\ call.fn = "get_block_size"
    /\ call.pc = "start"
    /\ call' = [fn |-> call.fn, pc |-> "done",
                ioctl |-> call.ioctl, fstat |-> call.fstat,
                out |-> get_block_size(call.ioctl, call.fstat)]

(***************************************************************************)
(* The directory tree.  Every sequence of names is a directory, except     *)
(* that /l is a symbolic link to env.target when env.linked.  env.mounts   *)
(* are the directories at which a file system is mounted; the root always  *)
(* is one ("/" and "/.." are the same inode).                              *)
(***************************************************************************)
Names == {"a", "b", "l"}

Components == Names \cup {".."}

Root == <<>>

LinkPath == <<"l">>

LinkTargets == {<<"a", "b">>, <<"b">>}

MountCandidates == {<<"a">>, <<"a", "b">>, <<"b">>}

LinkEnvs ==
    {[linked |-> FALSE, target |-> Root]}
        \cup {[linked |-> TRUE, target |-> t] : t \in LinkTargets}

Envs ==
    {[linked |-> e.linked, target |-> e.target, mounts |-> m] :
        e \in LinkEnvs, m \in SUBSET MountCandidates}

IsLink(env, p) == env.linked /\ p = LinkPath

Parent(p) == IF p = Root THEN Root ELSE SubSeq(p, 1, Len(p) - 1)

(***************************************************************************)
(* os.path.realpath: the components are taken left to right; ".." drops    *)
(* the last component resolved so far (the root is its own parent), and a  *)
(* component that names a symbolic link is replaced by the link's target.  *)
(***************************************************************************)
RECURSIVE Resolve(_, _, _)
Resolve(env, resolved, rest) ==
    IF rest = <<>> THEN resolved
    ELSE LET c == Head(rest)
         IN  IF c = ".."
             THEN Resolve(env, Parent(resolved), Tail(rest))
             ELSE IF IsLink(env, resolved \o <<c>>)
                  THEN Resolve(env, env.target, Tail(rest))
                  ELSE Resolve(env, resolved \o <<c>>, Tail(rest))

Realpath(env, path) == Resolve(env, Root, path)

(***************************************************************************)
(* os.path.ismount: never true of a symbolic link, true of the root and of *)
(* a directory that sits on another device than its parent.                *)
(***************************************************************************)
IsMount(env, p) == ~IsLink(env, p) /\ (p = Root \/ p \in env.mounts)

(***************************************************************************)
(* get_mount_point, one loop iteration per step.  f is the local variable  *)
(* of the source, canon the value realpath gave on entry, iters the number *)
(* of executions of the loop body.                                         *)
(***************************************************************************)
InputPaths == SeqsUpTo(Components, MaxPathLen)

MountCalls ==
    {[fn |-> "get_mount_point", pc |-> "start", filepath |-> p, env |-> e,
      canon |-> Root, f |-> Root, iters |-> 0, result |-> Root] :
        p \in InputPaths, e \in Envs}

(* A variant that joins os.curdir instead of os.pardir.                    *)
ParentOfCurdir(env, f) == Realpath(env, f)

ParentOf(env, f) == Realpath(env, f \o <<"..">>)

MountEnter ==
    /\ call.fn = "get_mount_point"
    /\ call.pc = "start"
    /\ LET f == Realpath(call.env, call.filepath)
       IN  call' = [call EXCEPT !.pc = "loop", !.canon = f, !.f = f]

(* A variant that moves to the parent before it tests for a mount point.   *)
MountStepParentFirst ==
    /\ call.fn = "get_mount_point"
    /\ call.pc = "loop"
    /\ call.iters < MaxIters
    /\ IF call.f = Root
       THEN call' = [call EXCEPT !.pc = "done", !.result = call.f]
       ELSE LET g == ParentOf(call.env, call.f)
            IN  IF IsMount(call.env, g)
                THEN call' = [call EXCEPT !.pc = "done", !.result = g,
                                          !.iters = @ + 1]
                ELSE call' = [call EXCEPT !.f = g, !.iters = @ + 1]

MountStep ==
    /\ call.fn = "get_mount_point"
    /\ call.pc = "loop"
    /\ call.iters < MaxIters
    /\ IF call.f = Root
       THEN call' = [call EXCEPT !.pc = "done", !.result = call.f]
       ELSE IF IsMount(call.env, call.f)
            THEN call' = [call EXCEPT !.pc = "done", !.result = call.f,
                                      !.iters = @ + 1]
            ELSE call' = [call EXCEPT !.f = ParentOf(call.env, call.f),
                                      !.iters = @ + 1]

(***************************************************************************)
(* Parsing of the 'df -T' output.                                          *)
(***************************************************************************)
RECURSIVE NewlineAt(_, _)
NewlineAt(s, i) ==
    IF i > Len(s) THEN 0
    ELSE IF s[i] = "\n" THEN i
    ELSE NewlineAt(s, i + 1)

(* stdout.splitlines(): the lines without their newline; a final newline  *)
(* starts no further line.                                                 *)
RECURSIVE SplitLines(_)
SplitLines(s) ==
    IF s = <<>> THEN <<>>
    ELSE LET n == NewlineAt(s, 1)
         IN  IF n = 0 THEN <<s>>
             ELSE <<SubSeq(s, 1, n - 1)>> \o SplitLines(SubSeq(s, n + 1, Len(s)))

RECURSIVE WordEnd(_, _)
WordEnd(s, i) ==
    IF i > Len(s) \/ s[i] \in Whitespace THEN i - 1 ELSE WordEnd(s, i + 1)

(* line.split(None, maxsplit): fields between runs of whitespace; after    *)
(* maxsplit fields the rest of the line, less its leading whitespace, is   *)
(* the last field.                                                         *)
RECURSIVE Split(_, _)
Split(line, maxsplit) ==
    LET s == LStrip(line)
    IN  IF s = <<>> THEN <<>>
        ELSE IF maxsplit = 0 THEN <<s>>
        ELSE LET e == WordEnd(s, 1)
             IN  <<SubSeq(s, 1, e)>> \o Split(SubSeq(s, e + 1, Len(s)), maxsplit - 1)

LowerChar(c) ==
    CASE c = "Z" -> "z"
      [] c = "F" -> "f"
      [] c = "S" -> "s"
      [] c = "H" -> "h"
      [] OTHER -> c

Lower(s) == [i \in 1..Len(s) |-> LowerChar(s[i])]

(***************************************************************************)
(* What 'df -T -- f' may print.  Standard output is a header line, a data  *)
(* row of at most MaxFields fields and possibly more text after it, or     *)
(* less than that; standard error is empty or a diagnostic.                *)
(***************************************************************************)
Words == {<<"d">>, <<"z", "f", "s">>, <<"Z", "F", "S">>}

RECURSIVE JoinFields(_)
JoinFields(fs) ==
    IF fs = <<>> THEN <<>>
    ELSE IF Len(fs) = 1 THEN fs[1]
    ELSE fs[1] \o <<" ">> \o JoinFields(Tail(fs))

DataLines ==
    {lead \o JoinFields(fs) :
        lead \in {<<>>, <<" ">>}, fs \in SeqsUpTo(Words, MaxFields)}

Headers == {<<>>, <<"H">>}

Tails == {<<>>, <<"\n">>, <<"\n", "d", " ", "z", "f", "s">>}

Stdouts ==
    {<<>>} \cup Headers
        \cup {h \o <<"\n">> \o d \o t : h \in Headers, d \in DataLines, t \in Tails}

Stderrs == {<<>>, <<"E">>}

FsReturned(t, bytes, f) ==
    [kind |-> "return", ftype |-> t, is_bytes |-> bytes, exc |-> "",
     msg |-> "", stderr |-> <<>>, df_calls |-> 1, df_arg |-> f]

FsRaised(e, m, err, f) ==
    [kind |-> "raise", ftype |-> <<>>, is_bytes |-> FALSE, exc |-> e,
     msg |-> m, stderr |-> err, df_calls |-> 1, df_arg |-> f]

(***************************************************************************)
(* get_file_system_type.  py3 tells whether the pipes of the child process *)
(* deliver bytes (Python 3) or str (Python 2); the type returned is of the *)
(* same kind as standard output.                                           *)
(***************************************************************************)
(* A variant that takes the first column of the data row.                  *)
TypeFieldFirstColumn(stdout) ==
    IF stdout # <<>>
    THEN LET t == SplitLines(stdout)
         IN  IF Len(t) >= 2
             THEN LET u == Split(t[2], 2)
                  IN  IF Len(u) >= 2 THEN Lower(u[1]) ELSE <<>>
             ELSE <<>>
    ELSE <<>>

TypeField(stdout) ==
    IF stdout # <<>>
    THEN LET t == SplitLines(stdout)
         IN  IF Len(t) >= 2
             THEN LET u == Split(t[2], 2)
                  IN  IF Len(u) >= 2 THEN Lower(u[2]) ELSE <<>>
             ELSE <<>>
    ELSE <<>>

get_file_system_type(env, filepath, stdout, stderr, py3) ==
    LET f == Realpath(env, filepath)
        ftype == TypeField(stdout)
    IN  IF ftype = <<>>
        THEN FsRaised("Error", "no file system type was found: ", stderr, f)
        ELSE FsReturned(ftype, py3, f)

FsPaths == {<<"a">>, <<"l">>, <<"l", "..">>}

FsEnvs ==
    {[linked |-> e.linked, target |-> e.target, mounts |-> {}] : e \in LinkEnvs}

FsCalls ==
    {[fn |-> "get_file_system_type", pc |-> "start", filepath |-> p, env |-> e,
      stdout |-> o, stderr |-> x, py3 |-> v] :
        p \in FsPaths, e \in FsEnvs, o \in Stdouts, x \in Stderrs, v \in BOOLEAN}

GetFileSystemType ==
    /\ call.fn = "get_file_system_type"
    /\ call.pc = "start"
    /\ call' = [fn |-> call.fn, pc |-> "done", filepath |-> call.filepath,
                env |-> call.env, stdout |-> call.stdout, stderr |-> call.stderr,
                py3 |-> call.py3,
                out |-> get_file_system_type(call.env, call.filepath, call.stdout,
                                             call.stderr, call.py3)]

(***************************************************************************)
(* is_compatible_file_system.  fst is what get_file_system_type gave; the  *)
(* literal 'zfs' of the source is a str, which a bytes value never equals. *)
(***************************************************************************)
Zfs == <<"z", "f", "s">>

CompatOut(kind, val, exc, msg, stderr, fst, zfs_called, opened) ==
    [kind |-> kind, val |-> val, exc |-> exc, msg |-> msg, stderr |-> stderr,
     fst |-> fst, zfs_called |-> zfs_called, opened |-> opened]

(* A variant that runs the ZFS check before it looks at the type.          *)
is_compatible_file_system_eager(env, filepath, stdout, stderr, py3, param) ==
    LET type == get_file_system_type(env, filepath, stdout, stderr, py3)
        z == is_zfs_compatible(param, py3)
    IN  IF type.kind = "raise"
        THEN CompatOut("raise", FALSE, type.exc, type.msg, type.stderr, type,
                       FALSE, FALSE)
        ELSE IF z.kind = "raise"
             THEN CompatOut(z.kind, z.val, z.exc, z.msg, <<>>, type, TRUE, z.opened)
             ELSE IF ~type.is_bytes /\ Zfs = type.ftype
                  THEN CompatOut(z.kind, z.val, z.exc, z.msg, <<>>, type,
                                 TRUE, z.opened)
                  ELSE CompatOut("return", TRUE, "", "", <<>>, type, TRUE, z.opened)

is_compatible_file_system(env, filepath, stdout, stderr, py3, param) ==
    LET type == get_file_system_type(env, filepath, stdout, stderr, py3)
    IN  IF type.kind = "raise"
        THEN CompatOut("raise", FALSE, type.exc, type.msg, type.stderr, type,
                       FALSE, FALSE)
        ELSE IF ~type.is_bytes /\ Zfs = type.ftype
             THEN LET z == is_zfs_compatible(param, py3)
                  IN  CompatOut(z.kind, z.val, z.exc, z.msg, <<>>, type,
                                TRUE, z.opened)
             ELSE CompatOut("return", TRUE, "", "", <<>>, type, FALSE, FALSE)

CompatParams ==
    {[kind |-> k, content |-> <<>>] : k \in {"absent", "dir", "noperm"}}
        \cup {[kind |-> "file", content |-> c] :
                 c \in {<<>>, <<"1">>, <<"1", "\n">>, <<"0">>, <<"x">>,
                        <<"-", " ", "0">>}}

CompatEnv == [linked |-> TRUE, target |-> <<"a", "b">>, mounts |-> {}]

CompatCalls ==
    {[fn |-> "is_compatible_file_system", pc |-> "start", filepath |-> LinkPath,
      env |-> CompatEnv, stdout |-> o, stderr |-> <<"E">>, py3 |-> v,
      param |-> param] :
        o \in Stdouts, v \in BOOLEAN, param \in CompatParams}

IsCompatibleFileSystem ==
    /\ call.fn = "is_compatible_file_system"
    /\ call.pc = "start"
    /\ call' = [fn |-> call.fn, pc |-> "done", filepath |-> call.filepath,
                env |-> call.env, stdout |-> call.stdout, stderr |-> call.stderr,
                py3 |-> call.py3, param |-> call.param,
                out |-> is_compatible_file_system(call.env, call.filepath,
                                                  call.stdout, call.stderr,
                                                  call.py3, call.param)]

Init ==
    \/ call \in ZfsCalls
    \/ call \in BsCalls
    \/ call \in MountCalls
    \/ call \in FsCalls
    \/ call \in CompatCalls

Next ==
    \/ IsZfsCompatible
    \/ GetBlockSize
    \/ MountEnter
    \/ MountStep
    \/ GetFileSystemType
    \/ IsCompatibleFileSystem

Spec == Init /\ [][Next]_vars

MountNext == MountEnter \/ MountStep

FairSpec == (call \in MountCalls) /\ [][MountNext]_vars /\ WF_vars(MountStep)

(***************************************************************************)
(* Vocabulary of the properties.                                           *)
(***************************************************************************)
Done(fn) == call.fn = fn /\ call.pc = "done"

(* The type detected is the str 'zfs'.                                     *)
DetectedZfs(fst) == fst.kind = "return" /\ ~fst.is_bytes /\ fst.ftype = Zfs

(* The type detected reads zfs, whether the pipes gave it as str or as     *)
(* bytes.                                                                  *)
DetectedTypeIsZfs(fst) == fst.kind = "return" /\ fst.ftype = Zfs

(* The text is an integer literal as the interpreter reads one: optional  *)
(* whitespace, an optional sign, one digit or more, optional whitespace;   *)
(* under Python 2 whitespace may also stand between the sign and the       *)
(* digits.                                                                 *)
IsIntegerText(s, py3) ==
    \E i \in 1..Len(s) : \E j \in i..Len(s) :
       /\ \A k \in 1..(i - 1) : s[k] \in Whitespace
       /\ \A k \in (j + 1)..Len(s) : s[k] \in Whitespace
       /\ \/ \A k \in i..j : s[k] \in Digits
          \/ /\ s[i] \in {"+", "-"}
             /\ \E d \in (i + 1)..j :
                   /\ \A k \in d..j : s[k] \in Digits
                   /\ \A k \in (i + 1)..(d - 1) : s[k] \in Whitespace
                   /\ py3 => d = i + 1

(* An integer literal denotes 1: no minus sign, a last digit 1 and only    *)
(* zeros, or whitespace after a sign, before it.                           *)
IntegerTextIsOne(s) ==
    LET t == Strip(s)
        d == IF t # <<>> /\ Head(t) = "+" THEN Tail(t) ELSE t
    IN  /\ d # <<>>
        /\ d[Len(d)] = "1"
        /\ \A k \in 1..(Len(d) - 1) : d[k] \in {"0"} \cup Whitespace

FirstLine(param) == ReadLine(param.content)

(* All the fields of a line.                                               *)
FieldsOf(line) == Split(line, Len(line))

(* Standard output has a data row with a type column.                      *)
HasTypeColumn(stdout) ==
    /\ Len(SplitLines(stdout)) >= 2
    /\ Len(FieldsOf(SplitLines(stdout)[2])) >= 2

(* A path that names no symbolic link and has no ".." in it.               *)
IsCanonical(env, p) ==
    /\ \A i \in 1..Len(p) : p[i] # ".."
    /\ \A i \in 1..Len(p) : ~IsLink(env, SubSeq(p, 1, i))

(* C1: whatever the ZFS parameter path holds, a detected type other than   *)
(* 'zfs' makes is_compatible_file_system return True, and neither          *)
(* is_zfs_compatible is called nor the parameter file opened.              *)
C1_NonZfsIsCompatible ==
    (Done("is_compatible_file_system")
        /\ call.out.fst.kind = "return" /\ ~DetectedZfs(call.out.fst))
    => /\ call.out.kind = "return"
       /\ call.out.val = TRUE
       /\ ~call.out.zfs_called
       /\ ~call.out.opened

C1_Witness ==
    /\ Done("is_compatible_file_system")
    /\ call.out.fst.kind = "return"
    /\ call.out.fst.ftype = <<"d">>
    /\ call.param.kind = "noperm"
    /\ call.out.kind = "return"
    /\ call.out.val = TRUE

(* C2 as stated: when the type detected for the path is zfs,               *)
(* is_compatible_file_system returns or raises what is_zfs_compatible does *)
(* on the same parameter path: True for a file holding 1, False for one    *)
(* holding 0 or for no file, and the error of is_zfs_compatible when it    *)
(* raises.                                                                 *)
C2_AsStated ==
    (Done("is_compatible_file_system") /\ DetectedTypeIsZfs(call.out.fst))
    => LET z == is_zfs_compatible(call.param, call.py3)
       IN  /\ call.out.zfs_called
           /\ call.out.kind = z.kind
           /\ call.out.val = z.val
           /\ call.out.exc = z.exc
           /\ call.out.msg = z.msg
           /\ (call.param.kind = "file" /\ call.param.content = <<"1">>)
                 => (call.out.kind = "return" /\ call.out.val = TRUE)
           /\ (call.param.kind = "absent"
                 \/ (call.param.kind = "file" /\ call.param.content = <<"0">>))
                 => (call.out.kind = "return" /\ call.out.val = FALSE)
           /\ (call.param.kind = "noperm"
                 \/ (call.param.kind = "file" /\ call.param.content = <<"x">>))
                 => (call.out.kind = "raise" /\ call.out.exc = "Error")

(* C3: is_zfs_compatible returns True for a parameter file holding "1" or  *)
(* "1\n", False for one holding "0", and False, without an error, when     *)
(* there is no file.                                                       *)
C3_ZfsFlagValues ==
    Done("is_zfs_compatible")
    => /\ (call.param.kind = "file"
             /\ call.param.content \in {<<"1">>, <<"1", "\n">>})
          => (call.out.kind = "return" /\ call.out.val = TRUE)
       /\ (call.param.kind = "file" /\ call.param.content = <<"0">>)
          => (call.out.kind = "return" /\ call.out.val = FALSE)
       /\ (call.param.kind = "absent")
          => (call.out.kind = "return" /\ call.out.val = FALSE)

C3_Witness ==
    /\ Done("is_zfs_compatible")
    /\ call.param.kind = "file"
    /\ call.param.content = <<"1", "\n">>
    /\ call.out.kind = "return"
    /\ call.out.val = TRUE

(* C4 as stated: False without an error only for a path that does not      *)
(* exist; for a path that exists, the module's Error when it cannot be     *)
(* opened or its first line is no integer, else True exactly for 1.        *)
C4_AsStated ==
    Done("is_zfs_compatible")
    => /\ (call.param.kind = "absent")
          => (call.out.kind = "return" /\ call.out.val = FALSE)
       /\ (call.param.kind # "absent"
             /\ (call.param.kind # "file"
                   \/ ~IsIntegerText(FirstLine(call.param), call.py3)))
          => (call.out.kind = "raise" /\ call.out.exc = "Error")
       /\ (call.param.kind = "file"
             /\ IsIntegerText(FirstLine(call.param), call.py3))
          => /\ call.out.kind = "return"
             /\ call.out.val = IntegerTextIsOne(FirstLine(call.param))

(* C4, amended: False without an error, and without opening anything, for  *)
(* a path that is no regular file, whether nothing is there or something   *)
(* else is; for a regular file, the module's Error when it cannot be       *)
(* opened or its first line is no integer as the interpreter's int() reads *)
(* one, else True exactly for 1.                                           *)
C4_RegularFileOrFalse ==
    Done("is_zfs_compatible")
    => /\ (call.param.kind \in {"absent", "dir"})
          => (call.out.kind = "return" /\ call.out.val = FALSE
                /\ ~call.out.opened)
       /\ (call.param.kind = "noperm"
             \/ (call.param.kind = "file"
                   /\ ~IsIntegerText(FirstLine(call.param), call.py3)))
          => (call.out.kind = "raise" /\ call.out.exc = "Error")
       /\ (call.param.kind = "file"
             /\ IsIntegerText(FirstLine(call.param), call.py3))
          => /\ call.out.kind = "return"
             /\ call.out.val = IntegerTextIsOne(FirstLine(call.param))

C4_Witness ==
    /\ Done("is_zfs_compatible")
    /\ call.param.kind = "dir"
    /\ call.out.kind = "return"
    /\ call.out.val = FALSE

(* C5 as stated: a block size that get_block_size returns is strictly      *)
(* positive, from FIGETBSZ or from st_blksize.                             *)
C5_AsStated ==
    (Done("get_block_size") /\ call.out.kind = "return")
    => call.out.bsize > 0

(* C6: a non-zero FIGETBSZ answer is returned without a call of fstat; a   *)
(* failed or zero answer is not passed on but leads to fstat, whose        *)
(* st_blksize is returned; the call raises its own IOError exactly when    *)
(* FIGETBSZ gave no value and the status has no st_blksize.                *)
C6_ProbeOrder ==
    Done("get_block_size")
    => LET novalue == call.ioctl.raises \/ call.ioctl.bsize = 0
       IN  /\ ~novalue
              => /\ call.out.kind = "return"
                 /\ call.out.bsize = call.ioctl.bsize
                 /\ ~call.out.fstat_called
           /\ novalue => call.out.fstat_called
           /\ (novalue /\ ~call.fstat.raises /\ call.fstat.has_blksize)
              => /\ call.out.kind = "return"
                 /\ call.out.bsize = call.fstat.st_blksize
           /\ (call.out.kind = "raise" /\ call.out.exc = "IOError")
              <=> (novalue /\ ~call.fstat.raises /\ ~call.fstat.has_blksize)

C6_Witness ==
    /\ Done("get_block_size")
    /\ ~call.ioctl.raises
    /\ call.ioctl.bsize = 0
    /\ call.fstat.has_blksize
    /\ call.fstat.st_blksize = 2
    /\ call.out.kind = "return"
    /\ call.out.bsize = 2
    /\ call.out.fstat_called

(* C7: get_mount_point returns a mount point that is the canonical path or *)
(* one of its ancestors, and no longer ancestor is a mount point; for the  *)
(* root it returns the root.                                               *)
C7_NearestMountPoint ==
    Done("get_mount_point")
    => LET canon == Realpath(call.env, call.filepath)
       IN  /\ IsCanonical(call.env, canon)
           /\ IsPrefix(call.result, canon)
           /\ IsMount(call.env, call.result)
           /\ \A n \in (Len(call.result) + 1)..Len(canon) :
                 ~IsMount(call.env, SubSeq(canon, 1, n))
           /\ canon = Root => call.result = Root

C7_Witness ==
    /\ Done("get_mount_point")
    /\ call.env.linked
    /\ call.filepath = <<"l", "a">>
    /\ call.env.target = <<"a", "b">>
    /\ call.env.mounts = {<<"a">>, <<"a", "b">>}
    /\ call.result = <<"a", "b">>

(* C8: the walk of get_mount_point ends; a loop iteration that does not    *)
(* return leaves a strictly shorter location, and there are no more        *)
(* iterations than the canonical path has components.                      *)
C8_WalkTerminates ==
    /\ [](call.pc = "loop" => <>(call.pc = "done"))
    /\ [](call.pc # "start" => call.iters <= Len(call.canon))
    /\ [][(call.pc = "loop" /\ call'.pc = "loop")
             => Len(call'.f) < Len(call.f)]_vars

C8_Witness ==
    /\ Done("get_mount_point")
    /\ Len(call.canon) = 3
    /\ call.iters = 3
    /\ call.result = Root

(* C9 as stated: standard output that is empty, has one line only, or has  *)
(* a data row of fewer than two fields makes get_file_system_type raise    *)
(* BmapHelpers.UnexpectedStateError, which carries standard error.         *)
C9_AsStated ==
    (Done("get_file_system_type") /\ ~HasTypeColumn(call.stdout))
    => /\ call.out.kind = "raise"
       /\ call.out.exc = "UnexpectedStateError"
       /\ call.out.stderr = call.stderr

(* C10: with a data row of two fields or more, get_file_system_type        *)
(* returns the second field of the second line in lowercase, not empty,    *)
(* after one run of df on the canonical path.                              *)
C10_SecondColumnLowercase ==
    (Done("get_file_system_type") /\ HasTypeColumn(call.stdout))
    => /\ call.out.kind = "return"
       /\ call.out.ftype = Lower(FieldsOf(SplitLines(call.stdout)[2])[2])
       /\ call.out.ftype # <<>>
       /\ call.out.df_calls = 1
       /\ call.out.df_arg = Realpath(call.env, call.filepath)
       /\ IsCanonical(call.env, call.out.df_arg)

C10_Witness ==
    /\ Done("get_file_system_type")
    /\ call.stdout = <<"H", "\n", " ", "d", " ", "Z", "F", "S", " ", "d",
                       "\n", "d", " ", "z", "f", "s">>
    /\ call.filepath = <<"l", "..">>
    /\ call.env.linked
    /\ call.env.target = <<"a", "b">>
    /\ call.out.kind = "return"
    /\ call.out.ftype = Zfs
    /\ call.out.df_arg = <<"a">>
====
